---- MODULE Spec2Model ----
(***************************************************************************)
(* Verification model of the Ripley scraper.                               *)
(*                                                                         *)
(*   src/src/pipeline/scrapper.py      class Scrapper                      *)
(*   src/src/scripts/main_scrapper.py  save_cookies, load_cookies,         *)
(*                                     load_config, parse_args, main       *)
(*                                                                         *)
(* The browser driver is the environment: every driver call either         *)
(* returns or raises, and which of the two happens is chosen               *)
(* nondeterministically at the call.                                       *)
(***************************************************************************)
EXTENDS Integers, Sequences, FiniteSets, TLC

VARIABLES
    pc,               \* position inside scrap_ripley
    i,                \* scrap_ripley: the slot index of "for i in range(1, 50)"
    retry,            \* scrap_ripley: the index of "for retry in range(max_retries)"
    descripciones,    \* scrap_ripley: result list
    precios_regular,  \* scrap_ripley: result list
    precios_oferta,   \* scrap_ripley: result list
    imagenes,         \* scrap_ripley: result list
    current,          \* _scroll_page: local "current"
    scroll_i,         \* _scroll_page: the index of "for i in range(max_scrolls)"
    scroll_args,      \* _scroll_page: the arguments start, step and max_scrolls
    error,            \* the exception that left scrap_ripley, "none" when none did
    log,              \* history: what the most recent extraction attempt did
    scrollsAt,        \* history: the slots after which _scroll_page was invoked
    scrollLog,        \* history: whether the last _scroll_page invocation met an exception
    exhausted,        \* history: the slots whose attempts all raised
    faultySlots,      \* environment: the slots where some lookup did not find its element
    image_case,       \* the arguments and the result of one call of _find_image_safe
    page_call,        \* the arguments and the result of one call of get_data_from_pagenumber
    args_case,        \* the command line, the configuration file and the result of parse_args
    api_call,         \* one request to the prediction API and its response
    cookieFile,       \* the file at cookie_path
    sessionCookies,   \* the cookies of the browser session
    call,             \* history: the last call of save_cookies or load_cookies
    mainPc,           \* position inside main
    driverState,      \* the browser: "none", "running" or "quit"
    driverBound,      \* whether main's local "driver" is bound
    exception,        \* the exception in flight inside main, "none" when none
    events            \* history: what main has done so far, in order

harvestVars == <<pc, i, retry, descripciones, precios_regular, precios_oferta,
                 imagenes, current, scroll_i, scroll_args, error, log, scrollsAt,
                 scrollLog, exhausted, faultySlots>>

cookieVars == <<cookieFile, sessionCookies, call>>

mainVars == <<mainPc, driverState, driverBound, exception, events>>

fnVars == <<page_call, args_case, api_call>>

vars == <<harvestVars, image_case, fnVars, cookieVars, mainVars>>

-----------------------------------------------------------------------------
(* Bounds of the model and constants of the program.                       *)

\* At most this many slots of one page have a lookup that does not simply
\* find its element; in such a slot every combination of outcomes is drawn.
MaxFaultySlots == 1

FirstSlot == 1       \* range(1, 50)
LastSlot == 49       \* range(1, 50)
max_retries == 2
ScrollEvery == 10    \* if i % 10 == 0
ScrollStart == 0     \* _scroll_page(start=0, ...)
ScrollStep == 800    \* self._scroll_page(step=800)
max_scrolls == 30    \* _scroll_page(..., max_scrolls=30)

-----------------------------------------------------------------------------
(* Python values.  A list element is a str or None.                        *)

Str(s) == [type |-> "str", val |-> s]
None == [type |-> "NoneType", val |-> ""]
EmptyStr == Str("")

\* What a call did: returned val (exc = "none") or raised exc.
Return(v) == [exc |-> "none", val |-> v]
Raise(e) == [exc |-> e, val |-> None]

\* The exception classes of the model and Python's "except" matching.
\* TimeoutException and NoSuchElementException are what an absent element
\* gives; WebDriverException stands for every other failure of the driver
\* (session lost, browser unreachable, stale element, page navigated away).
\* All of them derive from Exception.
IsInstance(exc, classes) == exc \in classes \/ "Exception" \in classes

-----------------------------------------------------------------------------
(* The page as the lookups see it.                                         *)

\* WebDriverWait(...).until(presence_of_element_located(...)) followed by
\* the read of the element: the element is found, the wait times out, or the
\* driver fails.  An img element can be present without a src attribute.
TextOutcomes == {"found", "TimeoutException", "WebDriverException"}
ImageOutcomes == TextOutcomes \cup {"found_nosrc"}
NumImageXpaths == 4
AllOutcomes ==
    [desc : TextOutcomes, price_reg : TextOutcomes, price_off : TextOutcomes,
     img : [1..NumImageXpaths -> ImageOutcomes]]
Nominal ==
    [desc |-> "found", price_reg |-> "found", price_off |-> "found",
     img |-> [k \in 1..NumImageXpaths |-> "found"]]

\* element.text of the element at slot s, field f.
ElementText(s, f) == Str(ToString(s) \o ":" \o f)
\* element.get_attribute("src") of the k-th image candidate of slot s.
ElementSrc(s, k) == Str(ToString(s) \o ":img" \o ToString(k))


Lookup(outcome, text, src) == [outcome |-> outcome, text |-> text, src |-> src]

\* A lookup the attempt never makes ("skipped") would find its element.
Made(outcome) == IF outcome = "skipped" THEN "found" ELSE outcome

\* The element a text lookup of slot s meets.
TextLookup(s, f, outcome) == Lookup(Made(outcome), ElementText(s, f), None)

\* The element an image lookup of slot s meets: an img without src is found,
\* and get_attribute("src") of it is None.
ImageLookup(s, k, outcome) ==
    Lookup(IF outcome = "found_nosrc" THEN "found" ELSE Made(outcome),
           EmptyStr,
           IF Made(outcome) = "found" THEN ElementSrc(s, k) ELSE None)

\* WebDriverWait(self.driver, timeout).until(EC.presence_of_element_located(..)):
\* the element, or the exception after at most timeout seconds.
WebDriverWaitUntil(lk) ==
    IF lk.outcome = "found" THEN Return(lk) ELSE Raise(lk.outcome)

-----------------------------------------------------------------------------
(* Scrapper._find_element_safe and Scrapper._find_image_safe.              *)

\* except (TimeoutException, NoSuchElementException)
FindElementCaught == {"TimeoutException", "NoSuchElementException"}
FindImageCaught == {"TimeoutException", "NoSuchElementException"}

\* Faulty variant: _find_element_safe without its "except".
find_element_unsafe(lk) ==
    LET element == WebDriverWaitUntil(lk)
    IN  IF element.exc = "none" THEN Return(element.val.text) ELSE Raise(element.exc)

find_element_safe(lk) ==
    LET element == WebDriverWaitUntil(lk)
    IN  IF element.exc = "none" THEN Return(element.val.text)
        ELSE IF IsInstance(element.exc, FindElementCaught) THEN Return(EmptyStr)
        ELSE Raise(element.exc)

\* The loop "for xpath in xpaths" from the k-th candidate on.
RECURSIVE find_image_from(_, _)
find_image_from(k, lks) ==
    IF k > Len(lks) THEN Return(EmptyStr)
    ELSE LET element == WebDriverWaitUntil(lks[k])
         IN  IF element.exc = "none" THEN Return(element.val.src)
             ELSE IF IsInstance(element.exc, FindImageCaught)
                  THEN find_image_from(k + 1, lks)
             ELSE Raise(element.exc)

\* Faulty variant: _find_image_safe that keeps the last candidate found instead of
\* returning at the first.
RECURSIVE find_image_keep_last(_, _, _)
find_image_keep_last(k, lks, kept) ==
    IF k > Len(lks) THEN Return(kept)
    ELSE LET element == WebDriverWaitUntil(lks[k])
         IN  IF element.exc = "none" THEN find_image_keep_last(k + 1, lks, element.val.src)
             ELSE IF IsInstance(element.exc, FindImageCaught)
                  THEN find_image_keep_last(k + 1, lks, kept)
             ELSE Raise(element.exc)
find_image_safe_last(lks) == find_image_keep_last(1, lks, EmptyStr)

find_image_safe(lks) == find_image_from(1, lks)

-----------------------------------------------------------------------------
(* Scrapper.scrap_ripley: one pass of the body of "try".                   *)

\* The four lookups of slot s in program order; the first one that raises
\* ends the attempt.  val is <<desc, price_reg, price_off, img>>.
TryBody(s, o) ==
    LET desc == find_element_safe(TextLookup(s, "desc", o.desc))
        price_reg == find_element_safe(TextLookup(s, "price_reg", o.price_reg))
        price_off == find_element_safe(TextLookup(s, "price_off", o.price_off))
        img == find_image_safe([k \in 1..NumImageXpaths |-> ImageLookup(s, k, o.img[k])])
    IN  IF desc.exc # "none" THEN Raise(desc.exc)
        ELSE IF price_reg.exc # "none" THEN Raise(price_reg.exc)
        ELSE IF price_off.exc # "none" THEN Raise(price_off.exc)
        ELSE IF img.exc # "none" THEN Raise(img.exc)
        ELSE Return(<<desc.val, price_reg.val, price_off.val, img.val>>)

\* History only: the outcomes of the lookups the attempt really made, the
\* others "skipped" (after a lookup that raised, after the first image found).
Ends(outcome) == outcome \in {"WebDriverException", "skipped"}
Performed(o) ==
    LET r == IF Ends(o.desc) THEN "skipped" ELSE o.price_reg
        f == IF Ends(r) THEN "skipped" ELSE o.price_off
    IN  [desc |-> o.desc, price_reg |-> r, price_off |-> f,
         img |-> [k \in 1..NumImageXpaths |->
                    IF ~Ends(f) /\ \A j \in 1..(k - 1) : o.img[j] = "TimeoutException"
                    THEN o.img[k] ELSE "skipped"]]

\* What one attempt can meet: an outcome for each lookup it makes.  Outcomes
\* of lookups that are never made do not tell two attempts apart.
AttemptOutcomes == {Performed(o) : o \in AllOutcomes}

\* Faulty variants: handlers that catch only the exceptions of an absent element.
ScrapRipleyCaughtNotFound == {"TimeoutException", "NoSuchElementException"}
ScrollPageCaughtTimeout == {"TimeoutException"}

\* except Exception
ScrapRipleyCaught == {"Exception"}
ScrollPageCaught == {"Exception"}

\* Faulty variant: the fallback record with None for the image.
EmptyRecordNoneImage == <<EmptyStr, EmptyStr, EmptyStr, None>>

\* The record appended when the last attempt raised.
EmptyRecord == <<EmptyStr, EmptyStr, EmptyStr, EmptyStr>>

NoLog == [slot |-> 0, retry |-> 0, exc |-> "none", outcomes |-> Performed(Nominal),
          slept |-> FALSE]

\* for x in range(n): the body runs for x = k when k < n.
InRangeUnbounded(k, n) == TRUE
InRange(k, n) == k < n

\* self._scroll_page(step=800): start and max_scrolls take their defaults.
ScrollCall == [start |-> ScrollStart, step |-> ScrollStep, max_scrolls |-> max_scrolls]

\* The state of scrap_ripley after its first statements: empty lists, i = 1.
HarvestInit ==
    /\ pc = "slot"
    /\ i = FirstSlot
    /\ retry = 0
    /\ descripciones = <<>>
    /\ precios_regular = <<>>
    /\ precios_oferta = <<>>
    /\ imagenes = <<>>
    /\ current = ScrollStart
    /\ scroll_i = 0
    /\ scroll_args = ScrollCall
    /\ error = "none"
    /\ log = NoLog
    /\ scrollsAt = <<>>
    /\ scrollLog = [threw |-> FALSE]
    /\ exhausted = {}
    /\ faultySlots = {}

\* Faulty variant: the append to imagenes left out.
AppendRecordNoImage(rec) ==
    /\ descripciones' = Append(descripciones, rec[1])
    /\ precios_regular' = Append(precios_regular, rec[2])
    /\ precios_oferta' = Append(precios_oferta, rec[3])
    /\ imagenes' = imagenes

\* The four appends of one record.
AppendRecord(rec) ==
    /\ descripciones' = Append(descripciones, rec[1])
    /\ precios_regular' = Append(precios_regular, rec[2])
    /\ precios_oferta' = Append(precios_oferta, rec[3])
    /\ imagenes' = Append(imagenes, rec[4])

\* The next iteration of "for i in range(1, 50)", or the return after the last.
NextSlot ==
    /\ retry' = 0
    /\ IF i = LastSlot
       THEN pc' = "returned" /\ i' = i
       ELSE pc' = "slot" /\ i' = i + 1

\* Faulty variant: a scroll every 5 slots instead of every 10.
ShouldScrollEveryFive(s) == s % 5 = 0

\* if i % 10 == 0
ShouldScroll(s) == s % ScrollEvery = 0

\* Faulty variant: the last attempt recognised one pass too late.
IsLastAttemptOffByOne(r) == r = max_retries

\* if retry == max_retries - 1
IsLastAttempt(r) == r = max_retries - 1

\* What follows the retry loop of slot i: "if i % 10 == 0: self._scroll_page(step=800)".
AfterRetries ==
    IF ShouldScroll(i)
    THEN /\ pc' = "scroll"
         /\ scroll_args' = ScrollCall
         /\ current' = ScrollCall.start
         /\ scroll_i' = 0
         /\ scrollsAt' = Append(scrollsAt, i)
         /\ scrollLog' = [threw |-> FALSE]
         /\ UNCHANGED <<i, retry>>
    ELSE /\ NextSlot
         /\ scrollLog' = [threw |-> FALSE]
         /\ UNCHANGED <<current, scroll_i, scroll_args, scrollsAt>>

\* One pass of "for retry in range(max_retries)" for slot i.
Attempt ==
    /\ pc = "slot"
    /\ UNCHANGED <<image_case, fnVars, cookieVars, mainVars>>
    /\ \E o \in (IF i \in faultySlots \/ Cardinality(faultySlots) < MaxFaultySlots
                 THEN AttemptOutcomes ELSE {Performed(Nominal)}) :
         LET r == TryBody(i, o)
         IN  /\ faultySlots' = IF o = Performed(Nominal) THEN faultySlots
                                ELSE faultySlots \cup {i}
             /\ log' = [slot |-> i, retry |-> retry, exc |-> r.exc, outcomes |-> o,
                         slept |-> (r.exc # "none" /\ IsInstance(r.exc, ScrapRipleyCaught)
                                      /\ ~IsLastAttempt(retry))]
             /\ IF r.exc = "none"
                THEN \* the appends, then "break"
                     /\ AppendRecord(r.val)
                     /\ AfterRetries
                     /\ UNCHANGED <<error, exhausted>>
                ELSE IF ~IsInstance(r.exc, ScrapRipleyCaught)
                THEN \* no handler: the exception leaves scrap_ripley
                     /\ pc' = "raised"
                     /\ error' = r.exc
                     /\ UNCHANGED <<i, retry, descripciones, precios_regular, precios_oferta,
                                    imagenes, current, scroll_i, scroll_args, scrollsAt,
                                    scrollLog, exhausted>>
                ELSE IF IsLastAttempt(retry)
                THEN \* the last attempt: the empty record
                     /\ AppendRecord(EmptyRecord)
                     /\ AfterRetries
                     /\ exhausted' = exhausted \cup {i}
                     /\ UNCHANGED error
                ELSE IF InRange(retry + 1, max_retries)
                THEN \* time.sleep(0.5), then the next attempt
                     /\ retry' = retry + 1
                     /\ UNCHANGED <<pc, i, descripciones, precios_regular, precios_oferta,
                                    imagenes, current, scroll_i, scroll_args, error, scrollsAt,
                                    scrollLog, exhausted>>
                ELSE \* time.sleep(0.5), and range(max_retries) is exhausted
                     /\ AfterRetries
                     /\ UNCHANGED <<descripciones, precios_regular, precios_oferta,
                                    imagenes, error, exhausted>>

\* Faulty variant: the offset advanced by twice the step.
AdvanceTwice(offset, step) == offset + 2 * step

\* current += step
Advance(offset, step) == offset + step

\* _scroll_page returns: its locals are gone.
ScrollLeave ==
    /\ NextSlot
    /\ current' = ScrollStart
    /\ scroll_i' = 0
    /\ scroll_args' = ScrollCall

\* _scroll_page: one pass of "for i in range(max_scrolls)".
ScrollAction ==
    /\ pc = "scroll"
    /\ InRange(scroll_i, scroll_args.max_scrolls)
    /\ \E outcome \in {"ok", "WebDriverException"} :
         IF outcome = "ok"
         THEN \* perform() returned: current += step, time.sleep(0.2)
              /\ current' = Advance(current, scroll_args.step)
              /\ scroll_i' = scroll_i + 1
              /\ UNCHANGED <<pc, i, retry, scroll_args, error, scrollLog>>
         ELSE IF IsInstance(outcome, ScrollPageCaught)
         THEN \* logged, "break"
              /\ scrollLog' = [threw |-> TRUE]
              /\ ScrollLeave
              /\ UNCHANGED error
         ELSE /\ pc' = "raised"
              /\ error' = outcome
              /\ UNCHANGED <<i, retry, current, scroll_i, scroll_args, scrollLog>>
    /\ UNCHANGED <<descripciones, precios_regular, precios_oferta, imagenes, log,
                   scrollsAt, exhausted, faultySlots>>
    /\ UNCHANGED <<image_case, fnVars, cookieVars, mainVars>>

\* _scroll_page: the loop is exhausted and the method returns.
ScrollReturn ==
    /\ pc = "scroll"
    /\ ~InRange(scroll_i, scroll_args.max_scrolls)
    /\ ScrollLeave
    /\ UNCHANGED <<descripciones, precios_regular, precios_oferta, imagenes,
                   error, log, scrollsAt, scrollLog, exhausted, faultySlots>>
    /\ UNCHANGED <<image_case, fnVars, cookieVars, mainVars>>

-----------------------------------------------------------------------------
(* One call of Scrapper._find_image_safe on its own.                       *)

ImageIdle == [slot |-> 0, outcomes |-> <<>>, called |-> FALSE, ret |-> Return(None)]

\* The candidates of slot s as a call of _find_image_safe meets them.
ImageLookups(s, outcomes) ==
    [k \in 1..NumImageXpaths |-> ImageLookup(s, k, outcomes[k])]

CallFindImageSafe ==
    /\ ~image_case.called
    /\ image_case' = [image_case EXCEPT
                        !.called = TRUE,
                        !.ret = find_image_safe(ImageLookups(image_case.slot,
                                                             image_case.outcomes))]
    /\ UNCHANGED <<harvestVars, fnVars, cookieVars, mainVars>>

-----------------------------------------------------------------------------
(* save_cookies and load_cookies of main_scrapper.py.                      *)

\* The browser session knows at most this many cookies.
MaxCookies == 2
CookieIds == 1..MaxCookies

RECURSIVE SeqsUpTo(_, _)
SeqsUpTo(S, n) ==
    IF n = 0 THEN {<<>>}
    ELSE LET shorter == SeqsUpTo(S, n - 1)
         IN  shorter \cup {Append(q, x) : q \in shorter, x \in S}

Range(q) == {q[k] : k \in 1..Len(q)}

\* A Python object as pickle stores it: a list of cookies, or something that
\* cannot be iterated (written by another program or version).
PyList(items) == [type |-> "list", items |-> items]
PyInt == [type |-> "int", items |-> <<>>]

\* The file at cookie_path: absent, not a pickle, or the pickle of an object.
FileMissing == [kind |-> "missing", obj |-> PyInt]
FileCorrupt == [kind |-> "corrupt", obj |-> PyInt]
Pickled(obj) == [kind |-> "pickle", obj |-> obj]
CookieFiles ==
    {FileMissing, FileCorrupt, Pickled(PyInt)}
        \cup {Pickled(PyList(q)) : q \in SeqsUpTo(CookieIds, MaxCookies)}

\* open(cookie_path, 'rb')
open_rb(file) ==
    IF file.kind = "missing" THEN Raise("FileNotFoundError") ELSE Return(file)

\* pickle.load(f)
pickle_load(file) ==
    IF file.kind = "pickle" THEN Return(file.obj) ELSE Raise("UnpicklingError")

\* driver.get_cookies(): the session's cookies as a list, in ascending order.
RECURSIVE get_cookies(_)
get_cookies(session) ==
    IF session = {} THEN <<>>
    ELSE LET least == CHOOSE c \in session : \A d \in session : c <= d
         IN  <<least>> \o get_cookies(session \ {least})

\* "except Exception" around driver.add_cookie(cookie)
AddCookieCaught == {"Exception"}
\* "except FileNotFoundError" and "except Exception" of load_cookies
LoadCookiesCaught == {"FileNotFoundError", "Exception"}

\* The loop "for cookie in cookies" from the k-th cookie on; the driver takes
\* the cookies in accepts and raises on the others.  val is the set added.
RECURSIVE add_cookies_from(_, _, _)
add_cookies_from(k, items, accepts) ==
    IF k > Len(items) THEN Return({})
    ELSE IF items[k] \in accepts
    THEN LET rest == add_cookies_from(k + 1, items, accepts)
         IN  IF rest.exc = "none" THEN Return({items[k]} \cup rest.val) ELSE rest
    ELSE IF IsInstance("WebDriverException", AddCookieCaught)
    THEN add_cookies_from(k + 1, items, accepts)
    ELSE Raise("WebDriverException")

\* load_cookies(driver, cookie_path): val is the bool returned, added the
\* cookies the session took.
load_cookies(file, accepts) ==
    LET opened == open_rb(file)
        cookies == IF opened.exc # "none" THEN opened ELSE pickle_load(file)
        looped == IF cookies.exc # "none" THEN cookies
                  ELSE IF cookies.val.type # "list" THEN Raise("TypeError")
                  ELSE add_cookies_from(1, cookies.val.items, accepts)
    IN  IF looped.exc = "none"
        THEN [exc |-> "none", val |-> TRUE, added |-> looped.val]
        ELSE IF IsInstance(looped.exc, LoadCookiesCaught)
        THEN [exc |-> "none", val |-> FALSE, added |-> {}]
        ELSE [exc |-> looped.exc, val |-> FALSE, added |-> {}]

\* What the calls inside save_cookies can do.
SaveOutcomes == {"ok", "get_cookies_failed", "open_failed", "dump_failed"}

\* save_cookies(driver, cookie_path): file is what cookie_path holds afterwards.
\* open(.., 'wb') truncates, so a failing pickle.dump leaves no valid pickle.
save_cookies(session, file, outcome) ==
    IF outcome = "get_cookies_failed" THEN [exc |-> "WebDriverException", file |-> file]
    ELSE IF outcome = "open_failed" THEN [exc |-> "OSError", file |-> file]
    ELSE IF outcome = "dump_failed" THEN [exc |-> "OSError", file |-> FileCorrupt]
    ELSE [exc |-> "none", file |-> Pickled(PyList(get_cookies(session)))]

CallIdle == [fn |-> "none", exc |-> "none", val |-> FALSE, before |-> FileMissing]

CallSaveCookies ==
    /\ \E outcome \in SaveOutcomes :
         LET r == save_cookies(sessionCookies, cookieFile, outcome)
         IN  /\ cookieFile' = r.file
             /\ call' = [fn |-> "save_cookies", exc |-> r.exc, val |-> FALSE,
                         before |-> cookieFile]
    /\ UNCHANGED sessionCookies
    /\ UNCHANGED <<harvestVars, image_case, fnVars, mainVars>>

CallLoadCookies ==
    /\ \E accepts \in SUBSET CookieIds :
         LET r == load_cookies(cookieFile, accepts)
         IN  /\ sessionCookies' = sessionCookies \cup r.added
             /\ call' = [fn |-> "load_cookies", exc |-> r.exc, val |-> r.val,
                         before |-> cookieFile]
    /\ UNCHANGED cookieFile
    /\ UNCHANGED <<harvestVars, image_case, fnVars, mainVars>>

-----------------------------------------------------------------------------
(* main of main_scrapper.py, and what it calls in scrapper.py.             *)

\* Scrapper.__init__(self, driver, base_url) takes two arguments besides
\* self; main calls Scrapper(driver).
ScrapperInitParams == 2
MainScrapperArgs == 1

\* The attributes __init__ sets on a Scrapper.
ScrapperAttributes == {"driver"}

\* What a call of the driver can do.
DriverOutcomes == {"ok", "WebDriverException"}

\* Scrapper(...) with nargs arguments: Python checks the arguments, then
\* __init__ runs driver.get(base_url) and driver.maximize_window().
ScrapperNew(nargs, get) ==
    IF nargs # ScrapperInitParams THEN Raise("TypeError")
    ELSE IF get # "ok" THEN Raise(get)
    ELSE Return(None)

\* Scrapper._wait_for_page_load: it reads self.wait; only TimeoutException
\* is handled.
wait_for_page_load(until) ==
    IF "wait" \notin ScrapperAttributes THEN Raise("AttributeError")
    ELSE IF until = "ok" \/ IsInstance(until, {"TimeoutException"}) THEN Return(None)
    ELSE Raise(until)

\* Scrapper.transform_to_df: pd.DataFrame({...}) of the four lists, which
\* raises ValueError when they differ in length.
transform_to_df(data) ==
    IF \E n \in 1..4 : Len(data[n]) # Len(data[1]) THEN Raise("ValueError")
    ELSE Return([type |-> "DataFrame", descripcion |-> data[1], precio_regular |-> data[2],
                 precio_oferta |-> data[3], imagen |-> data[4]])

\* DataFrame.to_csv(export_path, index=False): the file written, a header
\* and one line per row; a missing value (None) is written as an empty field.
CsvField(v) == IF v = None THEN "" ELSE v.val
to_csv(df) ==
    [type |-> "csv",
     header |-> <<"descripcion", "precio_regular", "precio_oferta", "imagen">>,
     rows |-> [k \in 1..Len(df.descripcion) |->
                 <<CsvField(df.descripcion[k]), CsvField(df.precio_regular[k]),
                   CsvField(df.precio_oferta[k]), CsvField(df.imagen[k])>>]]

\* What export_path holds before the call: no file, or the export of an
\* earlier run.
NoFile == [type |-> "missing", header |-> <<>>, rows |-> <<>>]
OldCsv == to_csv(transform_to_df(<<<<>>, <<>>, <<>>, <<>>>>).val)

\* url = f"{base_url}&page={page_number}"
PageUrl(base_url, page_number) == base_url \o "&page=" \o ToString(page_number)

\* What scrap_ripley returns on a page where every lookup finds its element.
NominalHarvest ==
    Return([n \in 1..4 |-> [k \in FirstSlot..LastSlot |-> TryBody(k, Nominal).val[n]]])

\* What the calls inside get_data_from_pagenumber can do.
PageEnvs ==
    [get : DriverOutcomes, maximize_window : DriverOutcomes,
     implicitly_wait : DriverOutcomes,
     until : {"ok", "TimeoutException", "WebDriverException"},
     write : {"ok", "OSError"}]

\* Scrapper.get_data_from_pagenumber(base_url, page_number, export_path):
\* val is the list of what it did, ret the DataFrame returned, file what
\* export_path holds afterwards; data is what scrap_ripley gives.
get_data_from_pagenumber(env, data, export_path, disk) ==
    LET Out(e, did, ret, file) == [exc |-> e, val |-> did, ret |-> ret, file |-> file]
        loaded == wait_for_page_load(env.until)
        df == transform_to_df(data.val)
    IN  IF env.get # "ok" THEN Out(env.get, <<"get:page">>, None, disk)
        ELSE IF env.maximize_window # "ok"
        THEN Out(env.maximize_window, <<"get:page", "maximize_window">>, None, disk)
        ELSE IF env.implicitly_wait # "ok"
        THEN Out(env.implicitly_wait,
                 <<"get:page", "maximize_window", "implicitly_wait">>, None, disk)
        ELSE IF loaded.exc # "none"
        THEN Out(loaded.exc,
                 <<"get:page", "maximize_window", "implicitly_wait", "_wait_for_page_load">>,
                 None, disk)
        ELSE IF data.exc # "none"
        THEN Out(data.exc,
                 <<"get:page", "maximize_window", "implicitly_wait", "_wait_for_page_load",
                   "scrap_ripley">>, None, disk)
        ELSE IF df.exc # "none"
        THEN Out(df.exc,
                 <<"get:page", "maximize_window", "implicitly_wait", "_wait_for_page_load",
                   "scrap_ripley">>, None, disk)
        ELSE IF export_path = ""
        THEN Out("none",
                 <<"get:page", "maximize_window", "implicitly_wait", "_wait_for_page_load",
                   "scrap_ripley">>, df.val, disk)
        ELSE IF env.write # "ok"
        THEN Out(env.write,
                 <<"get:page", "maximize_window", "implicitly_wait", "_wait_for_page_load",
                   "scrap_ripley", "to_csv">>, None, disk)
        ELSE Out("none",
                 <<"get:page", "maximize_window", "implicitly_wait", "_wait_for_page_load",
                   "scrap_ripley", "to_csv">>, df.val, to_csv(df.val))

\* The pages asked for are numbered from 1 to at most this.
MaxPage == 3
BaseUrls == {"https://simple.ripley.com.pe/tecnologia?s=mdco",
             "https://simple.ripley.com.pe/hogar?s=mdco"}
ExportPaths == {"", "data/ripley_page.csv"}

PageCall(base_url, page_number, export_path, disk) ==
    [base_url |-> base_url, page_number |-> page_number, export_path |-> export_path,
     disk |-> disk, called |-> FALSE, env |-> CHOOSE e \in PageEnvs : TRUE,
     url |-> "", exc |-> "none", did |-> <<>>, ret |-> None]
PageIdle == PageCall("", 1, "", NoFile)

\* One call of get_data_from_pagenumber on a Scrapper that __init__ built.
CallGetDataFromPagenumber ==
    /\ ~page_call.called
    /\ page_call.base_url # ""
    /\ \E env \in PageEnvs :
         LET r == get_data_from_pagenumber(env, NominalHarvest, page_call.export_path,
                                           page_call.disk)
         IN  page_call' = [page_call EXCEPT
                             !.called = TRUE, !.env = env,
                             !.url = PageUrl(page_call.base_url, page_call.page_number),
                             !.exc = r.exc, !.did = r.val, !.ret = r.ret, !.disk = r.file]
    /\ UNCHANGED <<harvestVars, image_case, args_case, api_call, cookieVars, mainVars>>

-----------------------------------------------------------------------------
(* parse_args and load_config of main_scrapper.py.                         *)

\* A Python int; val holds its digits.
PyNum(n) == [type |-> "int", val |-> ToString(n)]
\* An option that is not on the command line, a key that is not in the file.
NotGiven == [type |-> "absent", val |-> ""]

\* bool(v): None, 0 and "" are false.
Truthy(v) ==
    CASE v.type = "NoneType" -> FALSE
      [] v.type = "int" -> v.val # "0"
      [] v.type = "str" -> v.val # ""
      [] OTHER -> FALSE

\* The options of the parser besides --config, by their dest.
Options == {"url", "page", "output", "wait_time", "cookies_dir"}

\* add_argument(..., default=...): 10 for --wait-time, 'cookies' for
\* --cookies-dir, None for the others.
ArgDefault(k) ==
    IF k = "wait_time" THEN PyNum(10)
    ELSE IF k = "cookies_dir" THEN Str("cookies")
    ELSE None

\* parser.parse_args(): the value given, or the default of the option.
argparse_parse(cli) == [k \in Options |-> IF cli[k] = NotGiven THEN ArgDefault(k) ELSE cli[k]]

\* The file at the path of --config: absent, not JSON, or a JSON object.
ConfigMissing == [kind |-> "missing", obj |-> [k \in Options |-> NotGiven]]
ConfigInvalid == [kind |-> "invalid", obj |-> [k \in Options |-> NotGiven]]
ConfigJson(obj) == [kind |-> "json", obj |-> obj]
\* --config is not on the command line.
NoConfig == [kind |-> "none", obj |-> [k \in Options |-> NotGiven]]

\* load_config(config_path): both exceptions are logged and raised again.
load_config(file) ==
    IF file.kind = "missing" THEN Raise("FileNotFoundError")
    ELSE IF file.kind = "invalid" THEN Raise("JSONDecodeError")
    ELSE Return(file.obj)

\* for key, value in config.items():
\*     if not getattr(args, key, None): setattr(args, key, value)
UpdateFromConfig(args, config) ==
    [k \in Options |->
        IF config[k] # NotGiven /\ ~Truthy(args[k]) THEN config[k] ELSE args[k]]

\* args.page = args.page or 1; args.output = args.output or 'data'
OrDefaults(args) ==
    [args EXCEPT !["page"] = IF Truthy(@) THEN @ ELSE PyNum(1),
                 !["output"] = IF Truthy(@) THEN @ ELSE Str("data")]

\* parse_args() for the command line cli and the file at --config; val is the
\* Namespace returned, SystemExit what parser.error raises.
parse_args(cli, config) ==
    LET args == argparse_parse(cli)
        loaded == IF config.kind = "none" THEN Return(args)
                  ELSE LET cfg == load_config(config)
                       IN  IF cfg.exc # "none" THEN Raise(cfg.exc)
                           ELSE Return(UpdateFromConfig(args, cfg.val))
    IN  IF loaded.exc # "none" THEN [exc |-> loaded.exc, val |-> args]
        ELSE IF ~Truthy(loaded.val["url"]) THEN [exc |-> "SystemExit", val |-> loaded.val]
        ELSE [exc |-> "none", val |-> OrDefaults(loaded.val)]

\* The command lines and the configuration files of the model.
CliValues ==
    [url : {NotGiven, Str("https://simple.ripley.com.pe/tecnologia?s=mdco")},
     page : {NotGiven, PyNum(0), PyNum(2)},
     output : {NotGiven, Str("out")},
     wait_time : {NotGiven, PyNum(0), PyNum(5)},
     cookies_dir : {NotGiven, Str("session")}]
ConfigValues ==
    [url : {NotGiven, Str("https://simple.ripley.com.pe/hogar?s=mdco")},
     page : {NotGiven, PyNum(7)},
     output : {NotGiven, Str("exports")},
     wait_time : {NotGiven, PyNum(20)},
     cookies_dir : {NotGiven, Str("jar")}]
ConfigFiles == {ConfigMissing, ConfigInvalid} \cup {ConfigJson(obj) : obj \in ConfigValues}

ArgsCase(cli, config) ==
    [cli |-> cli, config |-> config, called |-> FALSE,
     ret |-> [exc |-> "none", val |-> argparse_parse(cli)]]

\* Nothing of parse_args has run.
ArgsIdle == ArgsCase([k \in Options |-> NotGiven], NoConfig)

\* One call of parse_args.
CallParseArgs ==
    /\ ~args_case.called
    /\ args_case' = [args_case EXCEPT
                       !.called = TRUE,
                       !.ret = parse_args(args_case.cli, args_case.config)]
    /\ UNCHANGED <<harvestVars, image_case, page_call, api_call, cookieVars, mainVars>>

-----------------------------------------------------------------------------
(* The prediction API of src/src/api/main.py.                              *)

\* raise HTTPException(status_code=..., detail=...); it derives from Exception.
HTTPException(status_code, detail) ==
    [exc |-> "HTTPException", val |-> [status_code |-> status_code, detail |-> detail]]

\* The detail of an error response: its text, the item the text names (0
\* when it names none) and the str(e) the text ends with.
Detail(msg, item, cause) == [msg |-> msg, item |-> item, cause |-> cause]

\* What joblib.load gave when the module was imported: nothing (model and
\* preprocessor are both None), a MyPreprocessor of this repository, or
\* another estimator with a transform method.
LoadedKinds == {"none", "MyPreprocessor", "estimator"}

\* An uploaded file: an image cv2 decodes, bytes it cannot decode, or a file
\* whose read fails.
ImageKinds == {"decodable", "undecodable", "unreadable"}

\* What preprocessor.transform and model.predict do with one item.
ItemOutcomes == {"ok", "transform_failed", "predict_failed"}

\* except Exception
ProcessImageCaught == {"Exception"}
MakePredictionCaught == {"Exception"}
MakeBatchCaught == {"Exception"}

\* process_image_file(file): the image array, or HTTPException 400 when the
\* read fails or cv2.imdecode returns None; the file is closed in both cases.
process_image_file(file) ==
    LET contents == IF file = "unreadable" THEN Raise("OSError") ELSE Return(Str(file))
        img == IF contents.exc # "none" THEN contents
               ELSE IF file = "undecodable" THEN Raise("ValueError")
               ELSE Return(Str("img"))
    IN  IF img.exc = "none" THEN img
        ELSE IF IsInstance(img.exc, ProcessImageCaught)
        THEN HTTPException(400, Detail("Error al procesar la imagen", 0, img.exc))
        ELSE img

\* preprocessor.transform(data).  None has no transform; MyPreprocessor.transform
\* calls self._tokenizar, which the class does not define, after the
\* embeddings are computed.
preprocessor_transform(loaded, outcome) ==
    IF loaded = "none" THEN Raise("AttributeError")
    ELSE IF loaded = "MyPreprocessor"
    THEN IF outcome = "transform_failed" THEN Raise("RuntimeError")
         ELSE Raise("AttributeError")
    ELSE IF outcome = "transform_failed" THEN Raise("ValueError")
    ELSE Return(Str("features"))

\* {"prediccion": predictions.tolist(), "precio_predicho": predictions.tolist()}
\* for the item with description descripcion.
Prediction(descripcion) ==
    [prediccion |-> <<descripcion>>, precio_predicho |-> <<descripcion>>]

\* model.predict(processed_data)
model_predict(loaded, outcome, descripcion) ==
    IF loaded = "none" THEN Raise("AttributeError")
    ELSE IF outcome = "predict_failed" THEN Raise("ValueError")
    ELSE Return(Prediction(descripcion))

\* One item of either endpoint: the image, the features, the prediction.
PredictItem(loaded, descripcion, imagen, outcome) ==
    LET img == process_image_file(imagen)
        processed == IF img.exc # "none" THEN img
                     ELSE preprocessor_transform(loaded, outcome)
    IN  IF processed.exc # "none" THEN processed
        ELSE model_predict(loaded, outcome, descripcion)

\* The answer to a request: status and detail (of the HTTPException when one
\* left the handler), the predictions returned, the uploads read.
Response(status_code, detail, body, read) ==
    [status_code |-> status_code, detail |-> detail, body |-> body, read |-> read]
NoDetail == Detail("", 0, "none")
\* An exception no handler caught: the server answers 500.
Unhandled(e, read) == Response(500, Detail("Internal Server Error", 0, e), <<>>, read)

\* POST /predict.  body is the list with the one dict returned.
make_prediction(loaded, descripcion, imagen, outcome) ==
    IF loaded = "none"
    THEN Response(500, Detail("Modelo o preprocessor no cargados correctamente", 0, "none"),
                  <<>>, <<>>)
    ELSE LET r == PredictItem(loaded, descripcion, imagen, outcome)
         IN  IF r.exc = "none" THEN Response(200, NoDetail, <<r.val>>, <<1>>)
             ELSE IF IsInstance(r.exc, MakePredictionCaught)
             THEN Response(500, Detail("Error al realizar la prediccion", 0, r.exc), <<>>, <<1>>)
             ELSE IF r.exc = "HTTPException"
             THEN Response(r.val.status_code, r.val.detail, <<>>, <<1>>)
             ELSE Unhandled(r.exc, <<1>>)

\* Faulty variant: the position of an item counted from 0.
FailedPositionFromZero(predictions) == Len(predictions)

\* len(predictions) + 1
FailedPosition(predictions) == Len(predictions) + 1

\* zip(descripciones, imagenes) stops at the shorter list.
ZipLen(a, b) == IF Len(a) <= Len(b) THEN Len(a) ELSE Len(b)

\* The loop of make_batch_prediction from the k-th pair on.
RECURSIVE batch_from(_, _, _, _, _, _, _)
batch_from(k, loaded, descs, imgs, outcomes, predictions, read) ==
    IF k > ZipLen(descs, imgs) THEN Response(200, NoDetail, predictions, read)
    ELSE LET r == PredictItem(loaded, descs[k], imgs[k], outcomes[k])
         IN  IF r.exc = "none"
             THEN batch_from(k + 1, loaded, descs, imgs, outcomes,
                             Append(predictions, r.val), Append(read, k))
             ELSE IF IsInstance(r.exc, MakeBatchCaught)
             THEN Response(500, Detail("Error al procesar el item",
                                       FailedPosition(predictions), r.exc),
                           <<>>, Append(read, k))
             ELSE IF r.exc = "HTTPException"
             THEN Response(r.val.status_code, r.val.detail, <<>>, Append(read, k))
             ELSE Unhandled(r.exc, Append(read, k))

\* POST /predict/batch
make_batch_prediction(loaded, descs, imgs, outcomes) ==
    IF Len(descs) # Len(imgs)
    THEN Response(400, Detail("El numero de descripciones debe coincidir con el numero de imagenes",
                              0, "none"), <<>>, <<>>)
    ELSE batch_from(1, loaded, descs, imgs, outcomes, <<>>, <<>>)

\* A batch request has at most this many descriptions and this many images.
MaxBatch == 3
Descriptions(n) == [k \in 1..n |-> "producto " \o ToString(k)]

ApiCall(endpoint, loaded, descs, imgs) ==
    [endpoint |-> endpoint, loaded |-> loaded, descripciones |-> descs, imagenes |-> imgs,
     called |-> FALSE, outcomes |-> [k \in 1..MaxBatch |-> "ok"],
     response |-> Response(0, NoDetail, <<>>, <<>>)]
ApiIdle == ApiCall("", "none", <<>>, <<>>)

\* The requests of the model; Form(...) and File(...) are required, so each
\* list has at least one element.
ApiRequests ==
    {ApiCall("/predict", l, Descriptions(1), <<f>>) : l \in LoadedKinds, f \in ImageKinds}
      \cup {ApiCall("/predict/batch", l, Descriptions(n), q) :
              l \in LoadedKinds, n \in 1..MaxBatch,
              q \in SeqsUpTo(ImageKinds, MaxBatch) \ {<<>>}}

\* One request to POST /predict.
MakePrediction ==
    /\ ~api_call.called
    /\ api_call.endpoint = "/predict"
    /\ \E outcome \in ItemOutcomes :
         api_call' = [api_call EXCEPT
                        !.called = TRUE,
                        !.outcomes = [k \in 1..MaxBatch |-> IF k = 1 THEN outcome ELSE "ok"],
                        !.response = make_prediction(api_call.loaded, api_call.descripciones[1],
                                                     api_call.imagenes[1], outcome)]
    /\ UNCHANGED <<harvestVars, image_case, page_call, args_case, cookieVars, mainVars>>

\* One request to POST /predict/batch.
MakeBatchPrediction ==
    /\ ~api_call.called
    /\ api_call.endpoint = "/predict/batch"
    /\ \E outcomes \in [1..MaxBatch -> ItemOutcomes] :
         api_call' = [api_call EXCEPT
                        !.called = TRUE,
                        !.outcomes = outcomes,
                        !.response = make_batch_prediction(api_call.loaded,
                                                           api_call.descripciones,
                                                           api_call.imagenes, outcomes)]
    /\ UNCHANGED <<harvestVars, image_case, page_call, args_case, cookieVars, mainVars>>

fnIdle == page_call = PageIdle /\ args_case = ArgsIdle /\ api_call = ApiIdle

MainIdle ==
    /\ mainPc = "start"
    /\ driverState = "none"
    /\ driverBound = FALSE
    /\ exception = "none"
    /\ events = <<>>

\* main moves to position p with exception e in flight, having done evs.
Goto(p, e, evs) ==
    /\ mainPc' = (IF e = "none" THEN p ELSE "except")
    /\ exception' = e
    /\ events' = events \o evs

\* One step of main, from "try:" on.
Main ==
    /\ mainPc # "exited"
    /\ UNCHANGED <<harvestVars, image_case, fnVars, call>>
    /\ CASE mainPc = "start" ->
              \* driver = create_chrome_driver(): uc.Chrome(...) fails, or a
              \* later call of it fails with the browser started, or it returns
              \E outcome \in {"ok", "chrome_failed", "setup_failed"} :
                  /\ driverState' = IF outcome = "chrome_failed" THEN "none" ELSE "running"
                  /\ driverBound' = (outcome = "ok")
                  /\ Goto("scrapper", IF outcome = "ok" THEN "none" ELSE "WebDriverException",
                          <<"create_chrome_driver">>)
                  /\ UNCHANGED <<cookieFile, sessionCookies>>
         [] mainPc = "scrapper" ->
              \* scrapper = Scrapper(driver)
              \E get \in DriverOutcomes :
                  /\ LET r == ScrapperNew(MainScrapperArgs, get)
                     IN  Goto("load_cookies", r.exc,
                              IF r.exc = "none" THEN <<"Scrapper", "get:base">>
                              ELSE <<"Scrapper">>)
                  /\ UNCHANGED <<driverState, driverBound, cookieFile, sessionCookies>>
         [] mainPc = "load_cookies" ->
              \* if not load_cookies(driver, str(cookie_path)):
              \E accepts \in SUBSET CookieIds :
                  LET r == load_cookies(cookieFile, accepts)
                  IN  /\ sessionCookies' = sessionCookies \cup r.added
                      /\ Goto(IF r.val THEN "refresh" ELSE "gate", r.exc,
                              <<"load_cookies", IF r.val THEN "restored" ELSE "not_restored">>)
                      /\ UNCHANGED <<driverState, driverBound, cookieFile>>
         [] mainPc = "gate" ->
              \* driver.get(home); input(...); save_cookies(...)
              \E get \in DriverOutcomes, typed \in {"ok", "EOFError"},
                 outcome \in SaveOutcomes, set \in SUBSET CookieIds :
                  LET session == sessionCookies \cup set
                      saved == save_cookies(session, cookieFile, outcome)
                  IN  IF get # "ok"
                      THEN /\ Goto("harvest", get, <<"get:home">>)
                           /\ UNCHANGED <<driverState, driverBound, cookieFile, sessionCookies>>
                      ELSE IF typed # "ok"
                      THEN /\ Goto("harvest", typed, <<"get:home", "input">>)
                           /\ sessionCookies' = session
                           /\ UNCHANGED <<driverState, driverBound, cookieFile>>
                      ELSE /\ Goto("harvest", saved.exc, <<"get:home", "input", "save_cookies">>)
                           /\ sessionCookies' = session
                           /\ cookieFile' = saved.file
                           /\ UNCHANGED <<driverState, driverBound>>
         [] mainPc = "refresh" ->
              \* driver.get(home); driver.implicitly_wait(args.wait_time)
              \E get \in DriverOutcomes :
                  /\ Goto("harvest", get, <<"get:home">>)
                  /\ UNCHANGED <<driverState, driverBound, cookieFile, sessionCookies>>
         [] mainPc = "harvest" ->
              \* df = scrapper.get_data_from_pagenumber(...)
              \E env \in PageEnvs :
                  LET r == get_data_from_pagenumber(env, NominalHarvest,
                                                    "data/ripley_page.csv", NoFile)
                  IN  /\ Goto("save_after", r.exc, r.val)
                      /\ UNCHANGED <<driverState, driverBound, cookieFile, sessionCookies>>
         [] mainPc = "save_after" ->
              \* save_cookies(driver, str(cookie_path)) after the harvest
              \E outcome \in SaveOutcomes :
                  LET saved == save_cookies(sessionCookies, cookieFile, outcome)
                  IN  /\ Goto("finally", saved.exc, <<"save_cookies">>)
                      /\ cookieFile' = saved.file
                      /\ UNCHANGED <<driverState, driverBound, sessionCookies>>
         [] mainPc = "except" ->
              \* except Exception as e: logger.error(...); raise
              /\ mainPc' = "finally"
              /\ events' = Append(events, "except:" \o exception)
              /\ UNCHANGED <<driverState, driverBound, exception, cookieFile,
                             sessionCookies>>
         [] mainPc = "finally" ->
              \* finally: driver.quit().  With "driver" unbound the statement
              \* raises UnboundLocalError, which replaces the exception in flight.
              \E quit \in DriverOutcomes :
                  /\ mainPc' = "exited"
                  /\ exception' = (IF ~driverBound THEN "UnboundLocalError"
                                   ELSE IF quit # "ok" THEN quit
                                   ELSE exception)
                  /\ driverState' = (IF driverBound /\ quit = "ok" THEN "quit" ELSE driverState)
                  /\ events' = (IF driverBound THEN Append(events, "quit") ELSE events)
                  /\ UNCHANGED <<driverBound, cookieFile, sessionCookies>>

-----------------------------------------------------------------------------
(* The specifications.                                                     *)

\* Spec: one harvest, scrap_ripley from its first statement to its return.
Init ==
    /\ HarvestInit
    /\ image_case = ImageIdle
    /\ fnIdle
    /\ cookieFile = FileMissing
    /\ sessionCookies = {}
    /\ call = CallIdle
    /\ MainIdle

Next == Attempt \/ ScrollAction \/ ScrollReturn

Spec == Init /\ [][Next]_vars

\* SpecScroll: one invocation of _scroll_page(start, step, max_scrolls), made
\* where scrap_ripley makes it, after slot 10 is recorded, for every
\* combination of small arguments and of the values of the program.
MaxScrollArg == 2
ScrollStarts == 0..MaxScrollArg
ScrollSteps == (0..MaxScrollArg) \cup {ScrollStep}
ScrollCounts == (0..MaxScrollArg) \cup {max_scrolls}
ScrollInit ==
    /\ pc = "scroll"
    /\ i = ScrollEvery
    /\ retry = 0
    /\ descripciones = [k \in 1..ScrollEvery |-> TryBody(k, Nominal).val[1]]
    /\ precios_regular = [k \in 1..ScrollEvery |-> TryBody(k, Nominal).val[2]]
    /\ precios_oferta = [k \in 1..ScrollEvery |-> TryBody(k, Nominal).val[3]]
    /\ imagenes = [k \in 1..ScrollEvery |-> TryBody(k, Nominal).val[4]]
    /\ scroll_args \in [start : ScrollStarts, step : ScrollSteps, max_scrolls : ScrollCounts]
    /\ current = scroll_args.start
    /\ scroll_i = 0
    /\ error = "none"
    /\ log = [slot |-> ScrollEvery, retry |-> 0, exc |-> "none",
              outcomes |-> Performed(Nominal), slept |-> FALSE]
    /\ scrollsAt = <<ScrollEvery>>
    /\ scrollLog = [threw |-> FALSE]
    /\ exhausted = {}
    /\ faultySlots = {}
    /\ image_case = ImageIdle
    /\ fnIdle
    /\ cookieFile = FileMissing
    /\ sessionCookies = {}
    /\ call = CallIdle
    /\ MainIdle

ScrollNext == ScrollAction \/ ScrollReturn

SpecScroll == ScrollInit /\ [][ScrollNext]_vars

\* SpecImage: one call of _find_image_safe, for every slot and every
\* combination of outcomes of its four candidates.
ImageInit ==
    /\ HarvestInit
    /\ image_case \in {[slot |-> s, outcomes |-> o, called |-> FALSE, ret |-> Return(None)] :
                         s \in FirstSlot..LastSlot, o \in [1..NumImageXpaths -> ImageOutcomes]}
    /\ fnIdle
    /\ cookieFile = FileMissing
    /\ sessionCookies = {}
    /\ call = CallIdle
    /\ MainIdle

SpecImage == ImageInit /\ [][CallFindImageSafe]_vars

\* SpecCookies: calls of save_cookies and load_cookies on one cookie path,
\* starting from any file and any session.
CookiesInit ==
    /\ HarvestInit
    /\ image_case = ImageIdle
    /\ fnIdle
    /\ cookieFile \in CookieFiles
    /\ sessionCookies \in SUBSET CookieIds
    /\ call = CallIdle
    /\ MainIdle

CookiesNext == CallSaveCookies \/ CallLoadCookies

SpecCookies == CookiesInit /\ [][CookiesNext]_vars

\* SpecMain: one run of main, starting with any file at cookie_path.
MainInit ==
    /\ HarvestInit
    /\ image_case = ImageIdle
    /\ fnIdle
    /\ cookieFile \in CookieFiles
    /\ sessionCookies = {}
    /\ call = CallIdle
    /\ MainIdle

SpecMain == MainInit /\ [][Main]_vars

\* SpecPage: one call of get_data_from_pagenumber, for every base URL, page
\* number and export path, with or without an earlier file at the path.
PageInit ==
    /\ HarvestInit
    /\ image_case = ImageIdle
    /\ page_call \in {PageCall(u, n, e, d) : u \in BaseUrls, n \in 1..MaxPage,
                                           e \in ExportPaths, d \in {NoFile, OldCsv}}
    /\ args_case = ArgsIdle
    /\ api_call = ApiIdle
    /\ cookieFile = FileMissing
    /\ sessionCookies = {}
    /\ call = CallIdle
    /\ MainIdle

SpecPage == PageInit /\ [][CallGetDataFromPagenumber]_vars

\* SpecArgs: one call of parse_args, for every command line and every
\* configuration file of the model.
ArgsInit ==
    /\ HarvestInit
    /\ image_case = ImageIdle
    /\ page_call = PageIdle
    /\ api_call = ApiIdle
    /\ args_case \in {ArgsCase(cli, config) : cli \in CliValues,
                                              config \in {NoConfig} \cup ConfigFiles}
    /\ cookieFile = FileMissing
    /\ sessionCookies = {}
    /\ call = CallIdle
    /\ MainIdle

SpecArgs == ArgsInit /\ [][CallParseArgs]_vars

\* SpecApi: one request to the prediction API, for every state of the loaded
\* model and every request of the model.
ApiInit ==
    /\ HarvestInit
    /\ image_case = ImageIdle
    /\ page_call = PageIdle
    /\ args_case = ArgsIdle
    /\ api_call \in ApiRequests
    /\ cookieFile = FileMissing
    /\ sessionCookies = {}
    /\ call = CallIdle
    /\ MainIdle

ApiNext == MakePrediction \/ MakeBatchPrediction

SpecApi == ApiInit /\ [][ApiNext]_vars

-----------------------------------------------------------------------------
(* Properties of the harvest (Spec).                                       *)

Lists == <<descripciones, precios_regular, precios_oferta, imagenes>>

\* The record of slot k as the four lists hold it.
RecordAt(k) == <<descripciones[k], precios_regular[k], precios_oferta[k], imagenes[k]>>

\* The number of slots whose retry loop is over.
Processed == IF pc = "slot" THEN i - 1 ELSE i

\* What the page shows for slot k.
SlotSrcs(k) == {ElementSrc(k, c) : c \in 1..NumImageXpaths}
BelongsToSlot(k) ==
    /\ descripciones[k] \in {ElementText(k, "desc"), EmptyStr}
    /\ precios_regular[k] \in {ElementText(k, "price_reg"), EmptyStr}
    /\ precios_oferta[k] \in {ElementText(k, "price_off"), EmptyStr}
    /\ imagenes[k] \in SlotSrcs(k) \cup {EmptyStr, None}

\* C1: whatever the lookups of the slots do (find, time out, raise),
\* scrap_ripley does not abort, each of the four lists holds one entry per
\* slot processed so far, entry k is the one of slot k, and at the return
\* each list holds exactly 49 entries.
C1_OneRecordPerSlot ==
    /\ pc # "raised"
    /\ (pc # "raised" =>
          /\ \A n \in 1..4 : Len(Lists[n]) = Processed
          /\ \A k \in 1..Len(descripciones) : BelongsToSlot(k))
    /\ (pc = "returned" => Processed = LastSlot /\ Len(descripciones) = LastSlot - FirstSlot + 1)

\* C1 witness: a harvest that returned 49 records although a slot met lookups
\* that timed out or raised.
C1_Witness ==
    /\ pc = "returned"
    /\ faultySlots # {}
    /\ \A n \in 1..4 : Len(Lists[n]) = 49
    /\ \E k \in faultySlots : descripciones[k] = EmptyStr

\* C2 (as claimed): every entry of the four lists is a string.
C2_AllFieldsAreStrings ==
    pc # "raised" =>
        \A n \in 1..4 : \A k \in 1..Len(Lists[n]) : Lists[n][k].type = "str"

\* No step removes or changes a record that is in the lists.
C4_RecordsKept ==
    \A n \in 1..4 :
        /\ Len(Lists[n]') >= Len(Lists[n])
        /\ \A k \in 1..Len(Lists[n]) : Lists[n]'[k] = Lists[n][k]
\* Every slot whose attempts all raised holds the empty record, and the
\* harvest returns 49 records.
C4_ExhaustedSlotIsEmpty ==
    /\ pc # "raised"
    /\ \A s \in exhausted : s <= Len(descripciones) /\ s <= Len(imagenes)
                            /\ RecordAt(s) = <<EmptyStr, EmptyStr, EmptyStr, EmptyStr>>
    /\ (pc = "returned" => \A n \in 1..4 : Len(Lists[n]) = LastSlot)
\* C4: a slot whose 2 attempts all raised is recorded as the empty record,
\* no step changes a record that is already in the lists, the later slots are
\* processed and the harvest returns its 49 records without aborting.
C4_FailedSlotRecordedEmpty == [](C4_ExhaustedSlotIsEmpty) /\ [][C4_RecordsKept]_vars

\* C4 witness: slot 7 failed on both attempts, slots 6 and 8 hold what the
\* page shows, and the harvest returned.
C4_Witness ==
    /\ pc = "returned"
    /\ exhausted = {7}
    /\ RecordAt(7) = <<EmptyStr, EmptyStr, EmptyStr, EmptyStr>>
    /\ descripciones[6] = ElementText(6, "desc")
    /\ descripciones[8] = ElementText(8, "desc")
    /\ Len(descripciones) = 49

\* C5 (as claimed): once a lookup of an attempt has raised a driver failure,
\* the failure has left scrap_ripley and the harvest is over.
C5_FailurePropagates ==
    (log.slot >= FirstSlot /\ log.exc = "WebDriverException")
        => (pc = "raised" /\ error = "WebDriverException")

\* C5 (amended): a driver failure raised by a lookup stays inside
\* scrap_ripley: after the first attempt the slot is tried again with nothing
\* recorded, after the second the slot is recorded as the empty record and
\* the loop goes on; no exception leaves scrap_ripley.
C5_FailureContained ==
    /\ pc # "raised"
    /\ error = "none"
    /\ (log.slot >= FirstSlot /\ log.exc # "none" =>
          IF log.retry < max_retries - 1
          THEN /\ pc = "slot" /\ i = log.slot /\ retry = log.retry + 1
               /\ Len(descripciones) = log.slot - 1
          ELSE /\ Len(descripciones) = log.slot
               /\ RecordAt(log.slot) = <<EmptyStr, EmptyStr, EmptyStr, EmptyStr>>
               /\ log.slot \in exhausted)

\* C5 witness: both attempts of a slot raised and the loop is at the next slot.
C5_Witness ==
    /\ log.exc = "WebDriverException"
    /\ log.retry = 1
    /\ pc = "slot"
    /\ i = log.slot + 1
    /\ Len(descripciones) = log.slot

\* The lookups of the logged attempt that timed out.
TimedOut(f) == log.outcomes[f] = "TimeoutException"
NoImageFound == \A k \in 1..NumImageXpaths : log.outcomes.img[k] = "TimeoutException"
SomeNotFound ==
    \/ \E f \in {"desc", "price_reg", "price_off"} : TimedOut(f)
    \/ \E k \in 1..NumImageXpaths : log.outcomes.img[k] = "TimeoutException"
SomeRaised ==
    \/ \E f \in {"desc", "price_reg", "price_off"} : log.outcomes[f] = "WebDriverException"
    \/ \E k \in 1..NumImageXpaths : log.outcomes.img[k] = "WebDriverException"

\* C6 (as claimed): a first attempt that met an absent element does not end
\* the slot: the slot is not recorded yet, and a further attempt follows.
C6_NotFoundIsRetried ==
    (log.slot >= FirstSlot /\ log.retry = 0 /\ SomeNotFound)
        => (Len(descripciones) < log.slot /\ pc = "slot" /\ i = log.slot /\ retry = 1)

\* C6 (amended): an absent element makes no attempt fail and gives the empty
\* string for its field; the attempt that met it records the slot, so it
\* causes no further attempt.  A further attempt is made only after an
\* attempt that raised, and there are at most max_retries attempts.
C6_NotFoundYieldsEmpty ==
    /\ log.retry <= max_retries - 1
    /\ retry <= max_retries - 1
    /\ (pc = "slot" /\ retry > 0 =>
          log.slot = i /\ log.retry = retry - 1 /\ log.exc # "none")
    /\ (log.slot >= FirstSlot /\ ~SomeRaised => log.exc = "none")
    /\ (log.slot >= FirstSlot /\ log.exc = "none" =>
          /\ Len(descripciones) = log.slot
          /\ (TimedOut("desc") => descripciones[log.slot] = EmptyStr)
          /\ (TimedOut("price_reg") => precios_regular[log.slot] = EmptyStr)
          /\ (TimedOut("price_off") => precios_oferta[log.slot] = EmptyStr)
          /\ (NoImageFound => imagenes[log.slot] = EmptyStr))

\* C6 witness: the first attempt of a slot found no description and no image,
\* and the slot is recorded from that attempt.
C6_Witness ==
    /\ log.slot >= FirstSlot
    /\ log.retry = 0
    /\ log.exc = "none"
    /\ TimedOut("desc")
    /\ NoImageFound
    /\ Len(descripciones) = log.slot
    /\ descripciones[log.slot] = EmptyStr
    /\ precios_regular[log.slot] = ElementText(log.slot, "price_reg")

\* C7: _scroll_page is invoked right after each of the slots 10, 20, 30 and
\* 40 is recorded and at no other time: 4 times in a harvest.
C7_ScrollEveryTenSlots ==
    pc # "raised" =>
        /\ Len(scrollsAt) = Len(descripciones) \div 10
        /\ \A n \in 1..Len(scrollsAt) : scrollsAt[n] = 10 * n
        /\ (pc = "scroll" => i = scrollsAt[Len(scrollsAt)] /\ Len(descripciones) = i)
        /\ (pc = "returned" => scrollsAt = <<10, 20, 30, 40>>)

\* C7 witness: a harvest that returned after slot 10 failed on both attempts.
C7_Witness ==
    /\ pc = "returned"
    /\ scrollsAt = <<10, 20, 30, 40>>
    /\ 10 \in exhausted

\* The step on which a scroll action throws leaves _scroll_page.
C8_ThrowStep ==
    (pc = "scroll" /\ scrollLog'.threw) =>
        /\ pc' = "slot"
        /\ i' = i + 1
        /\ error' = "none"
        /\ Lists' = Lists
\* Nothing leaves scrap_ripley, and it returns 49 records.
C8_Returns49 ==
    /\ pc # "raised"
    /\ (pc = "returned" => \A n \in 1..4 : Len(Lists[n]) = LastSlot)
\* C8: the scroll action that throws is the last one of its invocation: the
\* step that meets the exception leaves _scroll_page, nothing is raised, the
\* lists are as they were and the loop is at the next slot; the harvest still
\* returns 49 records.
C8_ScrollFailureSwallowed == [](C8_Returns49) /\ [][C8_ThrowStep]_vars

\* C8 witness: the scroll after slot 40 threw and the loop is at slot 41.
C8_Witness ==
    /\ scrollLog.threw
    /\ pc = "slot"
    /\ i = 41
    /\ Len(descripciones) = 40

\* The number of waits (WebDriverWait(...).until) an attempt made.
LookupsMade(o) ==
    Cardinality({f \in {"desc", "price_reg", "price_off"} : o[f] # "skipped"})
        + Cardinality({k \in 1..NumImageXpaths : o.img[k] # "skipped"})

HarvestOver == pc \in {"returned", "raised"}

\* The counters of the loops stay within their ranges.
C14_Bounded ==
    /\ retry < max_retries
    /\ log.retry < max_retries
    /\ LookupsMade(log.outcomes) <= 3 + NumImageXpaths
    /\ Len(scrollsAt) <= LastSlot \div ScrollEvery
    /\ scroll_args.max_scrolls = max_scrolls
    /\ scroll_i <= scroll_args.max_scrolls

\* An upper bound of the number of steps the harvest still takes: for each
\* slot at most max_retries attempts, max_scrolls scroll actions and the
\* return of _scroll_page.
SlotCost == max_retries + max_scrolls + 1
StepsLeft ==
    IF HarvestOver THEN 0
    ELSE IF pc = "slot"
    THEN (LastSlot - i) * SlotCost + (max_retries - retry) + max_scrolls + 1
    ELSE (LastSlot - i) * SlotCost + (scroll_args.max_scrolls - scroll_i) + 1

\* Every step of the harvest lowers the bound.
C14_Progress == StepsLeft' < StepsLeft

\* The harvest stops only at its end: until then a step is possible, the
\* driver call it waits for returning or raising.
C14_StopsOnlyAtEnd == StepsLeft >= 0 /\ (HarvestOver \/ ENABLED Next)

\* C14: with every call of the driver returning or raising, the harvest
\* comes to its end, since a bound of the steps left decreases at each step
\* and a step is possible until the end; no slot is attempted more than 2
\* times, no attempt makes more than 7 waits, _scroll_page is invoked at
\* most 4 times and no invocation performs more than 30 scroll actions.
C14_HarvestTerminates ==
    [](C14_Bounded) /\ [](C14_StopsOnlyAtEnd) /\ [][C14_Progress]_vars

\* C14 witness: a harvest that returned after a slot was attempted twice,
\* the second attempt with all 7 waits, and after 4 invocations of _scroll_page.
C14_Witness ==
    /\ pc = "returned"
    /\ Len(scrollsAt) = 4
    /\ log.retry = max_retries - 1
    /\ LookupsMade(log.outcomes) = 7

\* A step that makes an attempt writes its log.
IsAttemptStep == log' # log

\* The attempts of a slot as the states show them.
C15_AttemptsInRange ==
    /\ retry \in 0..(max_retries - 1)
    /\ log.retry \in 0..(max_retries - 1)
    /\ (pc = "slot" /\ retry > 0 =>
          /\ log.slot = i
          /\ log.retry = retry - 1
          /\ log.exc # "none"
          /\ log.slept)
    /\ (log.slept => log.exc # "none")
    /\ (pc # "raised" => \A n \in 1..4 : Len(Lists[n]) = Processed)

\* The attempts of a slot as the steps show them.
C15_AttemptStep ==
    /\ (Processed' # Processed =>
          /\ Processed' = Processed + 1
          /\ IsAttemptStep
          /\ log'.slot = Processed')
    /\ (IsAttemptStep /\ log'.exc = "none" =>
          /\ \A n \in 1..4 : Len(Lists[n]') = Len(Lists[n]) + 1
          /\ Processed' = Processed + 1
          /\ (pc' = "slot" => i' = log'.slot + 1 /\ retry' = 0)
          /\ ~log'.slept)
    /\ (IsAttemptStep /\ log'.retry > 0 =>
          log.slot = log'.slot /\ log.retry = log'.retry - 1 /\ log.exc # "none" /\ log.slept)

\* C15: every slot is attempted at least once and at most 2 times; the
\* second attempt is made only after a first attempt that raised and after
\* the sleep; an attempt that succeeds appends one record to each list and
\* ends the retries of its slot; after slot k each list has k entries.
C15_AtMostTwoAttempts == [](C15_AttemptsInRange) /\ [][C15_AttemptStep]_vars

\* C15 witness: the second attempt of a slot succeeded, and the slot holds the
\* record of that attempt.
C15_Witness ==
    /\ log.slot >= FirstSlot
    /\ log.retry = 1
    /\ log.exc = "none"
    /\ pc = "slot"
    /\ i = log.slot + 1
    /\ retry = 0
    /\ \A n \in 1..4 : Len(Lists[n]) = log.slot
    /\ descripciones[log.slot] = ElementText(log.slot, "desc")

-----------------------------------------------------------------------------
(* Properties of _scroll_page (SpecScroll).                                *)

\* The offset during an invocation, after scroll_i successful actions.
C16_OffsetTracked ==
    pc = "scroll" =>
        /\ scroll_i \in 0..scroll_args.max_scrolls
        /\ current = scroll_args.start + scroll_i * scroll_args.step
        /\ current >= scroll_args.start
        /\ current <= scroll_args.start + scroll_args.max_scrolls * scroll_args.step

\* A scroll action that succeeds moves the offset by step, never backwards.
C16_ActionAdvancesByStep ==
    (pc = "scroll" /\ pc' = "scroll") =>
        /\ scroll_i' = scroll_i + 1
        /\ current' = current + scroll_args.step
        /\ current' >= current
        /\ scroll_args' = scroll_args

\* C16: an invocation _scroll_page(start, step, max_scrolls) performs at most
\* max_scrolls scroll actions; each successful action advances the tracked
\* offset by exactly step, the offset never decreases, after j successful
\* actions it is start + j * step, and it never exceeds
\* start + max_scrolls * step.
C16_ScrollOffsetBounded == [](C16_OffsetTracked) /\ [][C16_ActionAdvancesByStep]_vars

\* C16 witness: the invocation with start = 1, step = 800 and max_scrolls = 30
\* has performed its 30 actions and the offset is 24001.
C16_Witness ==
    /\ pc = "scroll"
    /\ scroll_args = [start |-> 1, step |-> 800, max_scrolls |-> 30]
    /\ scroll_i = 30
    /\ current = 24001

-----------------------------------------------------------------------------
(* Properties of _find_image_safe (SpecImage).                             *)

Present(o, k) == o[k] \in {"found", "found_nosrc"}
Absent(o, k) == o[k] = "TimeoutException"
\* get_attribute("src") of the k-th candidate of the call.
SrcOf(k) ==
    IF image_case.outcomes[k] = "found" THEN ElementSrc(image_case.slot, k) ELSE None

\* C3: the call returns the src of the first candidate, in list order, whose
\* element is present when all the candidates before it are absent, whatever
\* the later candidates are; with every candidate absent it returns "".
C3_FirstMatchWins ==
    image_case.called =>
        LET o == image_case.outcomes
        IN  /\ \A k \in 1..NumImageXpaths :
                  (Present(o, k) /\ \A j \in 1..(k - 1) : Absent(o, j))
                      => image_case.ret = Return(SrcOf(k))
            /\ ((\A k \in 1..NumImageXpaths : Absent(o, k))
                      => image_case.ret = Return(EmptyStr))

\* C3 witness: of the candidates [A, B, C, D] only B is present, and the call
\* returned B's src.
C3_Witness ==
    /\ image_case.called
    /\ image_case.outcomes =
          <<"TimeoutException", "found", "TimeoutException", "TimeoutException">>
    /\ image_case.ret = Return(ElementSrc(image_case.slot, 2))

-----------------------------------------------------------------------------
(* Properties of the cookie functions (SpecCookies) and of main (SpecMain). *)

\* Files load_cookies cannot restore a session from.
Unloadable == {FileMissing, FileCorrupt, Pickled(PyInt)}
\* Exceptions that come from the browser, the terminal or the disk.
EnvironmentErrors == {"WebDriverException", "EOFError", "OSError"}
Did(e) == \E n \in 1..Len(events) : events[n] = e

\* load_cookies returns False without raising for a file that is missing,
\* corrupt or of another format.
LoadCookiesNeverRaises ==
    \A f \in CookieFiles : \A accepts \in SUBSET CookieIds :
        /\ load_cookies(f, accepts).exc = "none"
        /\ (f \in Unloadable => ~load_cookies(f, accepts).val)

\* C9 (as claimed): load_cookies never raises and returns False for a
\* missing or unreadable file, and a run of main that finds such a file and
\* meets no failure of the browser passes the confirmation gate.
C9_UnloadableTakesGate ==
    /\ LoadCookiesNeverRaises
    /\ (mainPc = "exited" /\ driverBound /\ cookieFile \in Unloadable
          /\ exception \notin EnvironmentErrors) => Did("input")

\* The files save_cookies writes.
SavedFiles == {Pickled(PyList(get_cookies(S))) : S \in SUBSET CookieIds}

\* load_cookies returns True for every file save_cookies has written.
SaveThenLoad ==
    (call.fn = "save_cookies" /\ call.exc = "none") =>
        \A accepts \in SUBSET CookieIds :
            /\ load_cookies(cookieFile, accepts).val
            /\ load_cookies(cookieFile, accepts).exc = "none"

\* C10 (as claimed): load_cookies returns True on a file save_cookies wrote,
\* and a run of main that finds such a file and meets no failure of the
\* browser skips the gate and goes on to the revalidation and the harvest.
C10_SavedCookiesSkipGate ==
    /\ \A f \in SavedFiles : \A accepts \in SUBSET CookieIds : load_cookies(f, accepts).val
    /\ (mainPc = "exited" /\ driverBound /\ cookieFile \in SavedFiles
          /\ exception \notin EnvironmentErrors)
         => (Did("load_cookies") /\ ~Did("input") /\ Did("get:home") /\ Did("get:page"))

\* The position of the first e among the events of main, 0 when there is none.
Pos(e) == IF Did(e) THEN CHOOSE n \in 1..Len(events) : events[n] = e
                                   /\ \A m \in 1..(n - 1) : events[m] # e
          ELSE 0
Before(a, b) == Did(a) /\ Did(b) /\ Pos(a) < Pos(b)

\* A run of main that is over and in which the browser, the terminal and
\* the disk did what they were asked.
CleanExit == mainPc = "exited" /\ driverBound /\ exception \notin EnvironmentErrors

\* C11 (as claimed): a run of main restores the cookies; the gate is passed
\* exactly when the restore returned False, and then the harvest of the page
\* starts only after the gate and after the cookies are saved; in both
\* branches the entry URL is visited before the harvest starts.
C11_GateIffRestoreFalse ==
    CleanExit =>
        /\ Did("restored") \/ Did("not_restored")
        /\ Did("input") <=> Did("not_restored")
        /\ Did("not_restored") => (Before("input", "get:page")
                                     /\ Before("save_cookies", "get:page"))
        /\ Before("get:home", "get:page")

MainErrors == {"WebDriverException", "TypeError", "AttributeError", "EOFError",
               "OSError", "ValueError"}
\* The exception that reached "except Exception" of main, "none" without one.
OriginalError ==
    IF \E e \in MainErrors : Did("except:" \o e)
    THEN CHOOSE e \in MainErrors : Did("except:" \o e)
    ELSE "none"
QuitCalls == Cardinality({n \in 1..Len(events) : events[n] = "quit"})

\* C17 (as claimed): when main is over, whichever way, a browser that was
\* started has been quit, by exactly one call of quit, and the exception
\* that leaves main is the one its "try" raised, none when it raised none.
C17_QuitOnceOriginalError ==
    mainPc = "exited" =>
        /\ (driverState # "none" => driverState = "quit" /\ QuitCalls = 1)
        /\ exception = OriginalError

\* main did b at some time after the first a.
Later(a, b) == Did(a) /\ \E n \in (Pos(a) + 1)..Len(events) : events[n] = b

\* C18 (as claimed): a run of main harvests the page and exports the table,
\* and saves the cookies after the export; when the harvest raised, so that
\* nothing was exported, no cookies are saved after it.
C18_CookiesSavedAfterExport ==
    /\ CleanExit => (Did("to_csv") /\ Later("to_csv", "save_cookies"))
    /\ (mainPc = "exited" /\ Did("get:page") /\ ~Did("to_csv"))
          => ~Later("get:page", "save_cookies")

\* Files that open and unpickle to a list of cookies.
ListFiles == {f \in CookieFiles : f.kind = "pickle" /\ f.obj.type = "list"}

\* load_cookies returns True for every list of cookies, whichever of them
\* the driver takes, none of them included.
LoadCookiesIgnoresRejects ==
    \A f \in ListFiles : \A accepts \in SUBSET CookieIds :
        LET r == load_cookies(f, accepts)
        IN  r.exc = "none" /\ r.val /\ r.added = Range(f.obj.items) \cap accepts

\* C19 (as claimed): load_cookies returns True for every file that holds a
\* list of cookies, however many of them the driver rejects, and a run of
\* main that finds such a file restores and skips the gate, also when the
\* session took none of the cookies.
C19_RejectedCookiesSkipGate ==
    /\ LoadCookiesIgnoresRejects
    /\ (CleanExit /\ cookieFile \in ListFiles) => (Did("restored") /\ ~Did("input"))

-----------------------------------------------------------------------------
(* Properties of get_data_from_pagenumber (SpecPage).                      *)

\* C12 (as claimed): a call in which the navigation and every other call of
\* the driver succeed runs the harvest, writes the table to export_path
\* when one is given, and returns the table.
C12_PageHarvestedAndExported ==
    (/\ page_call.called
     /\ page_call.env.get = "ok"
     /\ page_call.env.maximize_window = "ok"
     /\ page_call.env.implicitly_wait = "ok"
     /\ page_call.env.until = "ok"
     /\ page_call.env.write = "ok")
        => /\ page_call.exc = "none"
           /\ page_call.ret = transform_to_df(NominalHarvest.val).val
           /\ (page_call.export_path # "" => page_call.disk = to_csv(page_call.ret))

-----------------------------------------------------------------------------
(* Properties of parse_args (SpecArgs).                                    *)

\* C20 (as claimed): in the Namespace parse_args returns, an option given on
\* the command line has the value given there, and an option not given on
\* the command line has the value of the configuration file when the file
\* has one, wait_time and cookies_dir included.
C20_CommandLineThenConfig ==
    (args_case.called /\ args_case.ret.exc = "none") =>
        \A k \in Options :
            /\ (args_case.cli[k] # NotGiven => args_case.ret.val[k] = args_case.cli[k])
            /\ (args_case.cli[k] = NotGiven /\ args_case.config.obj[k] # NotGiven
                  => args_case.ret.val[k] = args_case.config.obj[k])

-----------------------------------------------------------------------------
(* Properties of the prediction API (SpecApi).                             *)

\* preprocessor.transform or model.predict fails on the k-th item of the request.
PipelineFails(k) ==
    \/ api_call.loaded # "estimator"
    \/ api_call.outcomes[k] # "ok"

\* C21 (as claimed): POST /predict answers 500 without reading the image
\* when the model or the preprocessor is not loaded; otherwise it answers 400
\* when the image cannot be decoded, and 500 when the image is decoded and
\* the preprocessing or the prediction fails.
C21_UndecodableImageIs400 ==
    (api_call.called /\ api_call.endpoint = "/predict") =>
        /\ (api_call.loaded = "none" =>
              api_call.response.status_code = 500 /\ api_call.response.read = <<>>)
        /\ (api_call.loaded # "none" /\ api_call.imagenes[1] = "undecodable" =>
              api_call.response.status_code = 400)
        /\ (api_call.loaded # "none" /\ api_call.imagenes[1] = "decodable" /\ PipelineFails(1) =>
              api_call.response.status_code = 500)

\* The k-th item of the request cannot be processed.
ItemFails(k) == api_call.imagenes[k] # "decodable" \/ PipelineFails(k)

\* The position of the first item of the batch that cannot be processed, 0
\* when every item can.
FirstFailing ==
    LET n == Len(api_call.descripciones)
    IN  IF \E k \in 1..n : ItemFails(k)
        THEN CHOOSE k \in 1..n : ItemFails(k) /\ \A j \in 1..(k - 1) : ~ItemFails(j)
        ELSE 0

\* C22: POST /predict/batch with lists of different lengths answers 400 and
\* reads no image.  With lists of equal length the items are processed in
\* order up to the first one that fails; the answer is then an error whose
\* detail names the position of that item, counted from 1, and it carries no
\* prediction; when no item fails the answer is the list of all predictions
\* in the order of the request.
C22_BatchAllOrNothing ==
    (api_call.called /\ api_call.endpoint = "/predict/batch") =>
        LET n == Len(api_call.descripciones)
            r == api_call.response
        IN  IF n # Len(api_call.imagenes)
            THEN r.status_code = 400 /\ r.read = <<>> /\ r.body = <<>>
            ELSE IF FirstFailing = 0
            THEN /\ r.status_code = 200
                 /\ r.body = [k \in 1..n |-> Prediction(api_call.descripciones[k])]
                 /\ r.read = [k \in 1..n |-> k]
            ELSE /\ r.status_code >= 400
                 /\ r.detail.item = FirstFailing
                 /\ r.body = <<>>
                 /\ r.read = [k \in 1..FirstFailing |-> k]

\* C22 witness: a batch of 3 whose first item is predicted and whose second
\* image cannot be decoded: the answer is an error that names item 2, the
\* third image is not read and no prediction is returned.
C22_Witness ==
    /\ api_call.called
    /\ api_call.endpoint = "/predict/batch"
    /\ api_call.loaded = "estimator"
    /\ api_call.imagenes = <<"decodable", "undecodable", "decodable">>
    /\ Len(api_call.descripciones) = 3
    /\ api_call.outcomes[1] = "ok"
    /\ api_call.response.status_code = 500
    /\ api_call.response.detail.item = 2
    /\ api_call.response.read = <<1, 2>>
    /\ api_call.response.body = <<>>

=============================================================================
